---- MODULE Spec2Model ----
(***************************************************************************)
(* Order lifecycle, stock and double-entry ledger of mercury-core.         *)
(*                                                                         *)
(* The services receive a SQLAlchemy Session.  The model keeps two copies  *)
(* of the tables: `sess` is what the session sees (rows added with         *)
(* db.add and attributes assigned on loaded objects, flushed or not) and   *)
(* `db` is what has been committed.  db.commit() writes the whole session  *)
(* state; a service that raises does not roll back, so whatever it added   *)
(* or assigned before raising stays pending in `sess`.                     *)
(*                                                                         *)
(* Money is counted in cents (Numeric(15, 2) columns).                     *)
(***************************************************************************)
EXTENDS Integers, Sequences, FiniteSets, TLC

VARIABLES
    db,         \* committed tables
    sess,       \* tables as seen through the session (committed + pending)
    n_ids,      \* number of uuid4-based identifiers generated so far
    now,        \* the clock read by datetime.utcnow(), in hours
    failed_ids, \* history: ids (journal_entry_id, order id) made by calls that raised
    last,       \* history: the last step (call or tick), its outcome, the stock before it
    workers     \* concurrent requests: where each one is and what it has loaded

vars == <<db, sess, n_ids, now, failed_ids, last, workers>>

\* ------------------------------------------------------------------ bounds
MaxCalls == 2       \* journal calls in one behaviour
MaxOrders == 1      \* order rows
MaxTime == 25       \* the clock stops here
InitialStock == 3   \* stock_quantity of the physical product at the start
MaxMovements == 3   \* inventory_movements rows
MaxTransitions == 2 \* audit rows of an order when a concurrent request may still start
MaxBookings == 2    \* booking rows
MaxEvents == 2      \* calendar events created in one behaviour

\* ------------------------------------------------------- chart of accounts
\* db/init.py seeds the chart; two of its accounts are kept, one debit-normal
\* and one credit-normal.
AccountIds == 1..2
RequestAccountIds == 1..3       \* 3 is an id with no account row
Amounts == {1, 2}               \* cents

account_type(a) ==
    CASE a = 1 -> "asset"       \* 1000 Cash
      [] a = 2 -> "income"      \* 4000 Sales Revenue
      [] a = 3 -> "asset"       \* 1100 Bank
      [] a = 4 -> "expense"     \* 5000 Cost of Goods Sold

account_code(a) ==
    CASE a = 1 -> 1000
      [] a = 2 -> 4000
      [] a = 3 -> 1100
      [] a = 4 -> 5000

DEBIT == "debit"
CREDIT == "credit"
TransactionType == {DEBIT, CREDIT}

\* abs(total_debit - total_credit) > 0.01, in cents
BalanceToleranceCents == 1

Abs(x) == IF x < 0 THEN -x ELSE x

\* --------------------------------------------------------------- products
ProductIds == 1..2
RequestProductIds == 1..3       \* 3 is an id with no product row

product_type(p) ==
    CASE p = 1 -> "physical"
      [] p = 2 -> "digital"

\* selling_price, in cents
selling_price(p) ==
    CASE p = 1 -> 1000
      [] p = 2 -> 500

\* ----------------------------------------------------------------- tables
InitTables ==
    [ balance     |-> [a \in AccountIds |-> 0],
      txns        |-> <<>>,                      \* transactions
      orders      |-> <<>>,                      \* orders, id = position
      order_items |-> <<>>,
      audit       |-> <<>>,                      \* order_state_transitions, by order
      movements   |-> <<>>,                      \* inventory_movements
      inventory_transactions |-> <<>>,
      stock       |-> [p \in ProductIds |-> IF product_type(p) = "physical"
                                            THEN InitialStock ELSE 0] ]

\* The ids of the account rows of tables t.
AccountIdsOf(t) == DOMAIN t.balance

Posting == [account_id : RequestAccountIds, type : TransactionType, amount : Amounts]

PostingLists ==
    {<<>>} \cup {<<p>> : p \in Posting} \cup {<<p, q>> : p \in Posting, q \in Posting}

\* ----------------------------------------------------------------- ledger
\* The balance of an account after one posting (the normal-balance rule).
ApplyPostingCreditAdds(bal, a, type, amount) ==
    IF type = DEBIT
    THEN IF account_type(a) \in {"asset", "expense"} THEN bal + amount ELSE bal - amount
    ELSE bal + amount

ApplyPosting(bal, a, type, amount) ==
    IF type = DEBIT
    THEN IF account_type(a) \in {"asset", "expense"} THEN bal + amount ELSE bal - amount
    ELSE IF account_type(a) \in {"liability", "equity", "income"}
         THEN bal + amount ELSE bal - amount

\* The loop over the entries: st = [t, total_debit, total_credit, err].
\* An unknown account raises at once; the rows added and the balances
\* assigned by the earlier iterations stay in the session.
RECURSIVE PostLoop(_, _, _, _, _, _)
PostLoop(st, entries, i, je, source_type, source_id) ==
    IF i > Len(entries) THEN st
    ELSE LET entry == entries[i] IN
         IF entry.account_id \notin AccountIdsOf(st.t)
         THEN [st EXCEPT !.err = "account_not_found"]
         ELSE LET row == [ journal_entry_id |-> je,
                           account_id       |-> entry.account_id,
                           transaction_type |-> entry.type,
                           amount           |-> entry.amount,
                           source_type      |-> source_type,
                           source_id        |-> source_id ]
                  t1  == [st.t EXCEPT
                            !.txns = Append(@, row),
                            !.balance[entry.account_id] =
                                ApplyPosting(@, entry.account_id, entry.type, entry.amount)]
                  st1 == [st EXCEPT
                            !.t = t1,
                            !.total_debit  = IF entry.type = DEBIT THEN @ + entry.amount ELSE @,
                            !.total_credit = IF entry.type = DEBIT THEN @ ELSE @ + entry.amount]
              IN PostLoop(st1, entries, i + 1, je, source_type, source_id)

Unbalanced(total_debit, total_credit) ==
    Abs(total_debit - total_credit) > BalanceToleranceCents

\* The outcome of a service call on session tables: the session afterwards,
\* whether it returned or raised, and what its last db.commit() wrote.
Ok(t) == [t |-> t, ok |-> TRUE, err |-> "none", committed |-> TRUE, ct |-> t]
Raise(t, err) == [t |-> t, ok |-> FALSE, err |-> err, committed |-> FALSE, ct |-> t]
\* A helper that returns without committing.
Done(t) == [t |-> t, ok |-> TRUE, err |-> "none", committed |-> FALSE, ct |-> t]

\* AccountingService.create_journal_entry on session tables t.
create_journal_entry(t, entries, je, source_type, source_id) ==
    LET st == PostLoop([t |-> t, total_debit |-> 0, total_credit |-> 0, err |-> "none"],
                       entries, 1, je, source_type, source_id)
    IN  IF st.err # "none" THEN Raise(st.t, st.err)
        ELSE IF Unbalanced(st.total_debit, st.total_credit) THEN Raise(st.t, "unbalanced")
        ELSE Ok(st.t)

\* A call as a step: the session keeps what the call did, raised or not; the
\* database gets what the call committed.
Call(op, r, a, b) ==
    /\ sess' = r.t
    /\ db' = IF r.committed THEN r.ct ELSE db
    /\ last' = [op |-> op, ok |-> r.ok, err |-> r.err, a |-> a, b |-> b,
                pre |-> sess.stock]
    /\ UNCHANGED workers

\* journal_entry_id is "JE-<date>-<uuid4 prefix>": a fresh identifier per call.
JournalCall(op, r, a, b) ==
    /\ n_ids < MaxCalls
    /\ n_ids' = n_ids + 1
    /\ failed_ids' = IF r.ok THEN failed_ids ELSE failed_ids \cup {n_ids + 1}
    /\ Call(op, r, a, b)
    /\ UNCHANGED now

CreateJournalEntry ==
    \E entries \in PostingLists :
        JournalCall("create_journal_entry",
                    create_journal_entry(sess, entries, n_ids + 1, "manual", 0),
                    Len(entries), 0)

\* The first income account whose code is LIKE '4%' (four-digit codes).
RevenueAccounts ==
    {a \in AccountIds : account_type(a) = "income" /\ account_code(a) \div 1000 = 4}

TwoPostings(debit_account, credit_account, amount) ==
    << [account_id |-> debit_account,  type |-> DEBIT,  amount |-> amount],
       [account_id |-> credit_account, type |-> CREDIT, amount |-> amount] >>

\* AccountingService.record_sale
record_sale(t, amount, account_id, order_id, je) ==
    IF RevenueAccounts = {}
    THEN Raise(t, "revenue_account_not_found")
    ELSE LET revenue_account == CHOOSE a \in RevenueAccounts : \A x \in RevenueAccounts : a <= x
         IN create_journal_entry(t, TwoPostings(account_id, revenue_account, amount),
                                 je, "order", order_id)

\* AccountingService.record_expense
record_expense(t, amount, expense_account_id, payment_account_id, je) ==
    create_journal_entry(t, TwoPostings(expense_account_id, payment_account_id, amount),
                         je, "expense", 0)

\* AccountingService.transfer_funds
transfer_funds(t, from_account_id, to_account_id, amount, je) ==
    create_journal_entry(t, TwoPostings(to_account_id, from_account_id, amount),
                         je, "transfer", 0)

RecordSale ==
    \E amount \in Amounts, account_id \in RequestAccountIds :
        JournalCall("record_sale", record_sale(sess, amount, account_id, 1, n_ids + 1),
                    account_id, amount)

RecordExpense ==
    \E amount \in Amounts, e \in RequestAccountIds, p \in RequestAccountIds :
        JournalCall("record_expense", record_expense(sess, amount, e, p, n_ids + 1), e, p)

TransferFunds ==
    \E amount \in Amounts, f \in RequestAccountIds, g \in RequestAccountIds :
        JournalCall("transfer_funds", transfer_funds(sess, f, g, amount, n_ids + 1), f, g)

\* ------------------------------------------------------ order state machine
DRAFT == "draft"
PENDING_PAYMENT == "pending_payment"
PAYMENT_SUBMITTED == "payment_submitted"
CONFIRMED == "confirmed"
PROCESSING == "processing"
DISPATCHED == "dispatched"
COMPLETED == "completed"
CANCELLED == "cancelled"
EXPIRED == "expired"

OrderStatus ==
    {DRAFT, PENDING_PAYMENT, PAYMENT_SUBMITTED, CONFIRMED, PROCESSING, DISPATCHED,
     COMPLETED, CANCELLED, EXPIRED}

ORDER_STATE_TRANSITIONS(s) ==
    CASE s = DRAFT             -> {PENDING_PAYMENT, CANCELLED}
      [] s = PENDING_PAYMENT   -> {PAYMENT_SUBMITTED, CANCELLED, EXPIRED}
      [] s = PAYMENT_SUBMITTED -> {CONFIRMED, CANCELLED}
      [] s = CONFIRMED         -> {PROCESSING, CANCELLED}
      [] s = PROCESSING        -> {DISPATCHED, CANCELLED}
      [] s = DISPATCHED        -> {COMPLETED}
      [] s = COMPLETED         -> {}
      [] s = CANCELLED         -> {}
      [] s = EXPIRED           -> {}
      [] OTHER                 -> {}

can_transition_any(from_state, to_state) == TRUE

can_transition_swapped(from_state, to_state) ==
    from_state \in ORDER_STATE_TRANSITIONS(to_state)

can_transition(from_state, to_state) == to_state \in ORDER_STATE_TRANSITIONS(from_state)

\* settings.ORDER_EXPIRY_HOURS
ORDER_EXPIRY_HOURS == 24

OrderIdsOf(t) == 1..Len(t.orders)

\* OrderService.create_order (services/order.py).  items: <<[product_id, quantity]>>.
\* item_subtotal = unit_price * quantity
ItemSubtotalUnitPrice(unit_price, quantity) == unit_price

ItemSubtotal(unit_price, quantity) == unit_price * quantity

\* A missing product raises before anything is added to the session.
RECURSIVE ItemRows(_, _)
ItemRows(items, order_id) ==
    IF items = <<>> THEN <<>>
    ELSE LET item == Head(items)
             unit_price == selling_price(item.product_id)
         IN  << [ order_id   |-> order_id,
                  product_id |-> item.product_id,
                  quantity   |-> item.quantity,
                  unit_price |-> unit_price,
                  subtotal   |-> ItemSubtotal(unit_price, item.quantity) ] >>
             \o ItemRows(Tail(items), order_id)

RECURSIVE SumSubtotal(_)
SumSubtotal(rows) ==
    IF rows = <<>> THEN 0 ELSE Head(rows).subtotal + SumSubtotal(Tail(rows))

create_order(t, items, clock) ==
    IF \E i \in 1..Len(items) : items[i].product_id \notin ProductIds
    THEN Raise(t, "product_not_found")
    ELSE LET order_id == Len(t.orders) + 1
             rows     == ItemRows(items, order_id)
             subtotal == SumSubtotal(rows)
             order    == [ status               |-> PENDING_PAYMENT,
                           subtotal             |-> subtotal,
                           total_amount         |-> subtotal,
                           expires_at           |-> clock + ORDER_EXPIRY_HOURS,
                           payment_confirmed_at |-> {},
                           dispatched_at        |-> {},
                           completed_at         |-> {} ]
         IN  Ok([t EXCEPT !.orders = Append(@, order),
                          !.order_items = @ \o rows,
                          !.audit = Append(@, <<>>)])

\* OrderService.transition_order_state.  A timestamp column is {} (NULL) or {time}.
\* t.audit[o] holds the order_state_transitions rows of order o, oldest first.
transition_order_state(t, order_id, new_state, clock) ==
    IF order_id \notin OrderIdsOf(t) THEN Raise(t, "order_not_found")
    ELSE LET order == t.orders[order_id] IN
         IF ~can_transition(order.status, new_state) THEN Raise(t, "invalid_transition")
         ELSE LET old_state == order.status
                  transition == [order_id |-> order_id, from_state |-> old_state,
                                 to_state |-> new_state]
                  order1 == [order EXCEPT
                               !.status = new_state,
                               !.payment_confirmed_at =
                                   IF new_state = CONFIRMED THEN {clock} ELSE @,
                               !.dispatched_at =
                                   IF new_state = DISPATCHED THEN {clock} ELSE @,
                               !.completed_at =
                                   IF new_state = COMPLETED THEN {clock} ELSE @]
              IN Ok([t EXCEPT !.orders[order_id] = order1,
                              !.audit[order_id] = Append(@, transition)])

\* The rows selected by expire_old_orders.
ExpiredOrders(t, clock) ==
    {o \in OrderIdsOf(t) :
        /\ t.orders[o].status \in {PENDING_PAYMENT, PAYMENT_SUBMITTED}
        /\ t.orders[o].expires_at < clock}

\* The loop of expire_old_orders over the selected rows, in the order the
\* query returned them; each transition commits, the first one that raises
\* ends the sweep.  r is the outcome so far, count rides in r.count.
RECURSIVE ExpireLoop(_, _, _)
ExpireLoop(r, ids, clock) ==
    IF ids = <<>> THEN r
    ELSE LET one == transition_order_state(r.t, Head(ids), EXPIRED, clock) IN
         IF ~one.ok
         THEN [r EXCEPT !.ok = FALSE, !.err = one.err, !.t = one.t]
         ELSE ExpireLoop([r EXCEPT !.t = one.t, !.committed = TRUE, !.ct = one.ct,
                                   !.count = @ + 1],
                         Tail(ids), clock)

\* The orderings a query without ORDER BY may return a set of rows in.
Orderings(S) ==
    {seq \in [1..Cardinality(S) -> S] : \A i, j \in 1..Cardinality(S) : i # j => seq[i] # seq[j]}

expire_old_orders(t, ids, clock) ==
    ExpireLoop([t |-> t, ok |-> TRUE, err |-> "none", committed |-> FALSE, ct |-> t,
                count |-> 0],
               ids, clock)

OrderCall(op, r, a, b) ==
    /\ Call(op, r, a, b)
    /\ UNCHANGED <<n_ids, now, failed_ids>>

OrderItemInputs == [product_id : RequestProductIds, quantity : {1, 2}]

OrderItemLists ==
    { <<[product_id |-> 1, quantity |-> 1]>>,
      <<[product_id |-> 1, quantity |-> 2], [product_id |-> 2, quantity |-> 1]>>,
      <<[product_id |-> 2, quantity |-> 1], [product_id |-> 3, quantity |-> 1]>> }

CreateOrder ==
    /\ Len(sess.orders) < MaxOrders
    /\ \E items \in OrderItemLists :
         OrderCall("create_order", create_order(sess, items, now), Len(items), 0)

TransitionOrderState ==
    \E order_id \in 1..(Len(sess.orders) + 1), new_state \in OrderStatus :
        OrderCall("transition_order_state",
                  transition_order_state(sess, order_id, new_state, now),
                  order_id, new_state)

ExpireOldOrders ==
    \E ids \in Orderings(ExpiredOrders(sess, now)) :
        LET r == expire_old_orders(sess, ids, now)
        IN  OrderCall("expire_old_orders", r, r.count, 0)

\* Time passes between calls.
Tick ==
    /\ \E d \in {ORDER_EXPIRY_HOURS, ORDER_EXPIRY_HOURS + 1} :
         /\ now + d <= MaxTime
         /\ now' = now + d
    /\ last' = [op |-> "tick", ok |-> TRUE, err |-> "none", a |-> 0, b |-> 0,
                pre |-> sess.stock]
    /\ UNCHANGED <<db, sess, n_ids, failed_ids, workers>>

\* -------------------------------------------------------------- inventory
PURCHASE == "purchase"
SALE == "sale"
ADJUSTMENT == "adjustment"
RETURN == "return"
DAMAGE == "damage"
MovementType == {PURCHASE, SALE, ADJUSTMENT, RETURN, DAMAGE}

\* The stock after a sale or damage movement that passed the check.
DecrementStock(stock_quantity, quantity) == stock_quantity - quantity

InsufficientStockOffByOne(stock_quantity, quantity) == stock_quantity <= quantity

InsufficientStock(stock_quantity, quantity) == stock_quantity < quantity

\* InventoryService.record_movement.  The movement row is added to the
\* session before the stock check, so it stays pending when the check raises.
record_movement(t, product_id, movement_type, quantity) ==
    IF product_id \notin ProductIds THEN Raise(t, "product_not_found")
    ELSE IF product_type(product_id) # "physical" THEN Raise(t, "not_physical")
    ELSE LET movement == [product_id |-> product_id, movement_type |-> movement_type,
                          quantity |-> quantity]
             t1 == [t EXCEPT !.movements = Append(@, movement)]
             stock_quantity == t.stock[product_id]
         IN  IF movement_type \in {PURCHASE, RETURN}
             THEN Ok([t1 EXCEPT !.stock[product_id] = stock_quantity + quantity])
             ELSE IF movement_type \in {SALE, DAMAGE}
             THEN IF InsufficientStock(stock_quantity, quantity)
                  THEN Raise(t1, "insufficient_stock")
                  ELSE Ok([t1 EXCEPT !.stock[product_id] =
                                         DecrementStock(stock_quantity, quantity)])
             ELSE Ok([t1 EXCEPT !.stock[product_id] = stock_quantity + quantity])

record_purchase(t, product_id, quantity) == record_movement(t, product_id, PURCHASE, quantity)

record_sale_stock(t, product_id, quantity) == record_movement(t, product_id, SALE, quantity)

adjust_inventory(t, product_id, adjustment) ==
    record_movement(t, product_id, ADJUSTMENT, adjustment)

Quantities == {1, 2, 4}
Adjustments == {-4, -1, 2}      \* an adjustment is signed

InventoryCall(op, r, a, b) ==
    /\ Len(sess.movements) < MaxMovements
    /\ Call(op, r, a, b)
    /\ UNCHANGED <<n_ids, now, failed_ids>>

\* record_movement called directly, for the types that have no wrapper.
RecordMovement ==
    \E p \in RequestProductIds, m \in {RETURN, DAMAGE}, q \in Quantities :
        InventoryCall("record_movement", record_movement(sess, p, m, q), <<p, m>>, q)

RecordPurchase ==
    \E p \in RequestProductIds, q \in Quantities :
        InventoryCall("record_purchase", record_purchase(sess, p, q), <<p, PURCHASE>>, q)

RecordStockSale ==
    \E p \in RequestProductIds, q \in Quantities :
        InventoryCall("record_sale", record_sale_stock(sess, p, q), <<p, SALE>>, q)

AdjustInventory ==
    \E p \in RequestProductIds, q \in Adjustments :
        InventoryCall("adjust_inventory", adjust_inventory(sess, p, q), <<p, ADJUSTMENT>>, q)

\* ------------------------------------------- order coordinator (order_service.py)
PAID == "paid"
SHIPPED == "shipped"
DELIVERED == "delivered"
REFUNDED == "refunded"
RETURNED == "returned"

CoordinatorStatus ==
    {DRAFT, PENDING_PAYMENT, PAID, PROCESSING, SHIPPED, DELIVERED, COMPLETED, CANCELLED,
     REFUNDED, RETURNED}

valid_transitions(s) ==
    CASE s = DRAFT           -> {PENDING_PAYMENT, CANCELLED}
      [] s = PENDING_PAYMENT -> {PAID, CANCELLED}
      [] s = PAID            -> {PROCESSING, REFUNDED}
      [] s = PROCESSING      -> {SHIPPED, COMPLETED}
      [] s = SHIPPED         -> {DELIVERED, RETURNED}
      [] s = DELIVERED       -> {COMPLETED, RETURNED}
      [] s = CANCELLED       -> {}
      [] s = REFUNDED        -> {}
      [] s = RETURNED        -> {REFUNDED}
      [] OTHER               -> {}

INBOUND == "inbound"
OUTBOUND == "outbound"

\* OrderService._update_inventory: the transaction row is added and the stock
\* is assigned before the check, so both stay in the session when it raises.
_update_inventory(t, product_id, quantity, reference_id, reference_type) ==
    LET transaction == [ product_id       |-> product_id,
                         quantity         |-> quantity,
                         transaction_type |-> IF quantity > 0 THEN INBOUND ELSE OUTBOUND,
                         reference_id     |-> reference_id,
                         reference_type   |-> reference_type ]
        t1 == [t EXCEPT !.inventory_transactions = Append(@, transaction)]
    IN  IF product_id \notin ProductIds THEN Done(t1)
        ELSE LET t2 == [t1 EXCEPT !.stock[product_id] = @ + quantity] IN
             IF t2.stock[product_id] < 0 THEN Raise(t2, "insufficient_stock")
             ELSE Done(t2)

\* The loop of create_order over order_data.items; st = [t, subtotal, err].
RECURSIVE CreateItemsLoop(_, _, _, _)
CreateItemsLoop(st, items, i, order_id) ==
    IF i > Len(items) THEN st
    ELSE LET item_data == items[i] IN
         IF item_data.product_id \notin ProductIds
         THEN [st EXCEPT !.err = "product_not_found"]
         ELSE LET product_id == item_data.product_id
                  item_total == selling_price(product_id) * item_data.quantity
                  order_item == [ order_id     |-> order_id,
                                  product_id   |-> product_id,
                                  product_type |-> product_type(product_id),
                                  quantity     |-> item_data.quantity,
                                  unit_price   |-> selling_price(product_id),
                                  total_price  |-> item_total ]
                  t1 == [st.t EXCEPT !.order_items = Append(@, order_item)]
                  u  == IF product_type(product_id) = "physical"
                        THEN _update_inventory(t1, product_id, -item_data.quantity,
                                               order_id, "order")
                        ELSE Done(t1)
              IN  IF ~u.ok THEN [st EXCEPT !.t = u.t, !.err = u.err]
                  ELSE CreateItemsLoop([st EXCEPT !.t = u.t, !.subtotal = @ + item_total],
                                       items, i + 1, order_id)

Max(a, b) == IF a >= b THEN a ELSE b

\* OrderService.create_order (services/order_service.py).
coordinator_create_order(t, items, tax_rate, discount_amount) ==
    LET order_id == Len(t.orders) + 1
        db_order == [ status          |-> DRAFT,
                      subtotal        |-> 0,
                      tax_amount      |-> 0,
                      discount_amount |-> discount_amount,
                      total           |-> 0 ]
        t0 == [t EXCEPT !.orders = Append(@, db_order)]
        st == CreateItemsLoop([t |-> t0, subtotal |-> 0, err |-> "none"], items, 1, order_id)
    IN  IF st.err # "none" THEN Raise(st.t, st.err)
        ELSE LET tax_amount == (st.subtotal * tax_rate) \div 100
                 total      == st.subtotal + tax_amount - discount_amount
             IN  Ok([st.t EXCEPT !.orders[order_id] =
                        [@ EXCEPT !.subtotal = st.subtotal,
                                  !.tax_amount = tax_amount,
                                  !.total = Max(0, total),
                                  !.status = PENDING_PAYMENT]])

\* The quantity _handle_order_cancellation / _handle_order_refund give back.
RestockQuantityNegated(item) == -item.quantity

RestockQuantity(item) == item.quantity

\* The loop of _handle_order_cancellation / _handle_order_refund over order.items.
RECURSIVE RestockLoop(_, _, _, _)
RestockLoop(r, rows, order_id, reference_type) ==
    IF rows = <<>> THEN r
    ELSE LET item == Head(rows) IN
         IF item.order_id = order_id /\ item.product_type = "physical"
         THEN LET u == _update_inventory(r.t, item.product_id, RestockQuantity(item),
                                         order_id, reference_type)
              IN  IF ~u.ok THEN u
                  ELSE RestockLoop(u, Tail(rows), order_id, reference_type)
         ELSE RestockLoop(r, Tail(rows), order_id, reference_type)

\* OrderService.update_order_status.
update_order_status(t, order_id, new_status) ==
    IF order_id \notin OrderIdsOf(t) THEN Raise(t, "order_not_found")
    ELSE LET current_status == t.orders[order_id].status IN
         IF new_status \notin valid_transitions(current_status)
         THEN Raise(t, "invalid_transition")
         ELSE LET t1 == [t EXCEPT !.orders[order_id].status = new_status]
                  r  == IF new_status = CANCELLED
                        THEN RestockLoop(Done(t1), t1.order_items, order_id,
                                         "order_cancellation")
                        ELSE IF new_status = REFUNDED
                        THEN RestockLoop(Done(t1), t1.order_items, order_id, "order_refund")
                        ELSE Done(t1)
              IN  IF ~r.ok THEN Raise(r.t, r.err) ELSE Ok(r.t)

Item(product_id, quantity) == [product_id |-> product_id, quantity |-> quantity]

\* Requests: one physical line, an oversell, physical + digital, a second
\* line that oversells, a second line with a missing product, digital only.
CoordinatorItemLists ==
    { <<Item(1, 1)>>,
      <<Item(1, 4)>>,
      <<Item(1, 2), Item(2, 1)>>,
      <<Item(1, 2), Item(1, 4)>>,
      <<Item(1, 2), Item(3, 1)>>,
      <<Item(2, 1)>> }

\* <<order_data.tax_rate (percent), order_data.discount_amount (cents)>>
PricingInputs == {<<0, 0>>, <<10, 1500>>}

CoordinatorCreateOrder ==
    /\ Len(sess.orders) < MaxOrders
    /\ \E items \in CoordinatorItemLists, pricing \in PricingInputs :
         LET r == coordinator_create_order(sess, items, pricing[1], pricing[2])
         IN  /\ Call("create_order", r, Len(sess.orders) + 1, items)
             /\ failed_ids' = IF r.ok THEN failed_ids
                              ELSE failed_ids \cup {Len(sess.orders) + 1}
             /\ UNCHANGED <<n_ids, now>>

UpdateOrderStatus ==
    \E order_id \in 1..(Len(sess.orders) + 1), new_status \in CoordinatorStatus :
        /\ Call("update_order_status", update_order_status(sess, order_id, new_status),
                order_id, new_status)
        /\ UNCHANGED <<n_ids, now, failed_ids>>

\* ------------------------------------------- concurrent stock movements
\* Two requests at a time, each on a session of its own over the one database.
\* record_movement reads the product row with a plain SELECT, works on the
\* loaded object, and db.commit() flushes the value it computed.
Workers == 1..2

IdleWorker ==
    [pc |-> "idle", product_id |-> 1, movement_type |-> PURCHASE, quantity |-> 0,
     stock_quantity |-> 0, snapshot |-> 0]

InFlight == {w \in Workers : workers[w].pc = "loaded"}

\* record_movement up to db.add(movement): the product row is loaded into
\* the request's session.  snapshot counts the movements committed so far.
LoadProduct(w) ==
    /\ workers[w].pc # "loaded"
    /\ Len(db.movements) + Cardinality(InFlight) < MaxMovements
    /\ \E p \in {p \in ProductIds : product_type(p) = "physical"},
          m \in {SALE, PURCHASE}, q \in Quantities :
         workers' = [workers EXCEPT ![w] =
                       [pc |-> "loaded", product_id |-> p, movement_type |-> m,
                        quantity |-> q, stock_quantity |-> db.stock[p],
                        snapshot |-> Len(db.movements)]]
    /\ UNCHANGED <<db, sess, n_ids, now, failed_ids, last>>

\* The rest of record_movement: the stock check and assignment on the loaded
\* object, then db.commit().  A request that raised ends with its session.
CheckAndCommit(w) ==
    /\ workers[w].pc = "loaded"
    /\ LET me == workers[w]
           t  == [db EXCEPT !.stock[me.product_id] = me.stock_quantity]
           r  == record_movement(t, me.product_id, me.movement_type, me.quantity)
       IN  /\ db' = IF r.ok THEN r.ct ELSE db
           /\ workers' = [workers EXCEPT ![w].pc = IF r.ok THEN "committed" ELSE "failed"]
    /\ UNCHANGED <<sess, n_ids, now, failed_ids, last>>

NextConcurrent ==
    \/ \E w \in Workers : LoadProduct(w)
    \/ \E w \in Workers : CheckAndCommit(w)

\* ------------------------------------------------ payment and sale posting
\* AccountingService.record_sale called for an order of the session, with the
\* order's total_amount, debiting the cash account.
RecordOrderSale ==
    \E order_id \in OrderIdsOf(sess), account_id \in {1} :
        JournalCall("record_sale",
                    record_sale(sess, sess.orders[order_id].total_amount, account_id,
                                order_id, n_ids + 1),
                    order_id, account_id)

NextPayment ==
    \/ CreateOrder
    \/ TransitionOrderState
    \/ RecordOrderSale

\* --------------------------------------------------------------- bookings
\* BookingService.  A booking row keeps its status and calendar_event_id
\* ({} is NULL).  The calendar is an outside system: a call to it fails or
\* returns a response.
BOOKING_PENDING == "pending"
BOOKING_CONFIRMED == "confirmed"
BOOKING_CANCELLED == "cancelled"

InitBookingTables == [bookings |-> <<>>] @@ InitTables

BookingIdsOf(t) == 1..Len(t.bookings)

\* data.get("service_id") or data.get("product_id"); 0 stands for neither.
ServiceIds == {0} \cup RequestProductIds

\* BookingService.create_booking
create_booking(t, service_id) ==
    IF service_id = 0 THEN Raise(t, "service_id_required")
    ELSE IF service_id \notin ProductIds THEN Raise(t, "product_not_found")
    ELSE Ok([t EXCEPT !.bookings = Append(@, [ product_id        |-> service_id,
                                               status            |-> BOOKING_PENDING,
                                               calendar_event_id |-> {} ])])

\* What create_event answers: a response with an "id", with an "eventId",
\* or with neither; event is the identifier the calendar gave the event.
ResponseShapes == {"id", "eventId", "neither"}
CalendarFailure == "error"

\* result.get("id") or result.get("eventId") or str(result); the text of a
\* response without identifier is written 0.
event_id_from_id_only(shape, event) == IF shape = "id" THEN {event} ELSE {}

event_id_from(shape, event) == IF shape \in {"id", "eventId"} THEN {event} ELSE {0}

\* The unique index on bookings.calendar_event_id.
EventIdTaken(t, booking_id, event_id) ==
    \E b \in BookingIdsOf(t) : b # booking_id /\ t.bookings[b].calendar_event_id = event_id

\* BookingService.confirm_booking; outcome is CalendarFailure or a response shape.
confirm_booking(t, booking_id, outcome, event) ==
    IF outcome = CalendarFailure THEN Raise(t, "calendar_error")
    ELSE LET event_id == event_id_from(outcome, event) IN
         IF EventIdTaken(t, booking_id, event_id) THEN Raise(t, "integrity_error")
         ELSE Ok([t EXCEPT !.bookings[booking_id].calendar_event_id = event_id,
                           !.bookings[booking_id].status = BOOKING_CONFIRMED])

\* BookingService.cancel_booking: the calendar is called when the booking has
\* an event, and a failure of that call is logged and dropped.
cancel_booking(t, booking_id, outcome) ==
    Ok([t EXCEPT !.bookings[booking_id].status = BOOKING_CANCELLED])

BookingCall(op, r, a, b) ==
    /\ Call(op, r, a, b)
    /\ UNCHANGED <<now, failed_ids>>

CreateBooking ==
    /\ Len(sess.bookings) < MaxBookings
    /\ \E service_id \in ServiceIds :
         BookingCall("create_booking", create_booking(sess, service_id), service_id, "none")
    /\ UNCHANGED n_ids

ConfirmBooking ==
    /\ n_ids < MaxEvents
    /\ \E booking_id \in BookingIdsOf(sess), outcome \in ResponseShapes \cup {CalendarFailure} :
         /\ BookingCall("confirm_booking",
                        confirm_booking(sess, booking_id, outcome, n_ids + 1),
                        booking_id, outcome)
         /\ n_ids' = IF outcome = CalendarFailure THEN n_ids ELSE n_ids + 1

CancelBooking ==
    /\ \E booking_id \in BookingIdsOf(sess), outcome \in {"ok", CalendarFailure} :
         BookingCall("cancel_booking", cancel_booking(sess, booking_id, outcome),
                     booking_id,
                     IF sess.bookings[booking_id].calendar_event_id = {} THEN "none" ELSE outcome)
    /\ UNCHANGED n_ids

NextBookings ==
    \/ CreateBooking
    \/ ConfirmBooking
    \/ CancelBooking

\* ------------------------------------------------------ chart of accounts
\* AccountService.create_account / update_account / delete_account.  The
\* tables get the account rows (code, is_active) and the id generator; the
\* balance column stays where the ledger keeps it, one entry per account row.
ChartAccountIds == 1..4
Codes == {1000, 1100}           \* codes a request may ask for

AccountRow(code, is_active) == [code |-> code, is_active |-> is_active]

InitChartTables ==
    [accounts |-> [a \in AccountIds |-> AccountRow(account_code(a), TRUE)],
     account_seq |-> Cardinality(AccountIds)] @@ InitTables

\* db.query(Account).filter(Account.code == code [, Account.id != account_id]).first()
CodeTaken(t, code, account_id) ==
    \E a \in AccountIdsOf(t) : a # account_id /\ t.accounts[a].code = code

\* The unique index on accounts.code refuses the INSERT or UPDATE.
UniqueViolationNever(t, code, account_id) == FALSE

UniqueViolation(t, code, account_id) ==
    \E a \in AccountIdsOf(t) : a # account_id /\ t.accounts[a].code = code

InsertAccount(t, code, is_active) ==
    LET id == t.account_seq + 1
    IN  [t EXCEPT !.accounts = (id :> AccountRow(code, is_active)) @@ @,
                  !.balance = (id :> 0) @@ @,
                  !.account_seq = id]

\* AccountService.create_account
create_account(t, code, is_active) ==
    IF CodeTaken(t, code, 0) THEN Raise(t, "code_exists")
    ELSE IF UniqueViolation(t, code, 0)
         THEN Raise(InsertAccount(t, code, is_active), "integrity_error")
         ELSE Ok(InsertAccount(t, code, is_active))

\* AccountUpdate with the fields a request sets (exclude_unset).
AccountUpdates == [code : Codes] \cup [is_active : BOOLEAN]

ApplyUpdate(row, update_data) ==
    [f \in DOMAIN row |-> IF f \in DOMAIN update_data THEN update_data[f] ELSE row[f]]

\* AccountService.update_account
update_account(t, account_id, update_data) ==
    IF account_id \notin AccountIdsOf(t) THEN Raise(t, "account_not_found")
    ELSE IF "code" \in DOMAIN update_data /\ CodeTaken(t, update_data.code, account_id)
    THEN Raise(t, "code_exists")
    ELSE LET t1 == [t EXCEPT !.accounts[account_id] = ApplyUpdate(@, update_data)]
         IN  IF "code" \in DOMAIN update_data
                /\ UniqueViolation(t, update_data.code, account_id)
             THEN Raise(t1, "integrity_error")
             ELSE Ok(t1)

\* func.count(Transaction.id) of the account; the query flushes the session
\* first, so rows a call left pending are counted as well.
transaction_count(t, account_id) ==
    Cardinality({i \in 1..Len(t.txns) : t.txns[i].account_id = account_id})

HasTransactionsNever(t, account_id) == FALSE

HasTransactions(t, account_id) == transaction_count(t, account_id) > 0

Without(f, x) == [y \in DOMAIN f \ {x} |-> f[y]]

\* AccountService.delete_account; value is what it returns.
delete_account(t, account_id) ==
    IF account_id \notin AccountIdsOf(t) THEN Done(t) @@ [value |-> FALSE]
    ELSE IF HasTransactions(t, account_id)
    THEN Raise(t, "has_transactions") @@ [value |-> FALSE]
    ELSE Ok([t EXCEPT !.accounts = Without(@, account_id),
                      !.balance = Without(@, account_id)]) @@ [value |-> TRUE]

ChartCall(op, r, a, b) ==
    /\ Call(op, r, a, b)
    /\ UNCHANGED <<n_ids, now, failed_ids>>

CreateAccount ==
    /\ sess.account_seq + 1 \in ChartAccountIds
    /\ \E code \in Codes, is_active \in BOOLEAN :
         ChartCall("create_account", create_account(sess, code, is_active), code, is_active)

UpdateAccount ==
    \E account_id \in ChartAccountIds, update_data \in AccountUpdates :
        ChartCall("update_account", update_account(sess, account_id, update_data),
                  account_id, update_data)

DeleteAccount ==
    \E account_id \in ChartAccountIds :
        ChartCall("delete_account", delete_account(sess, account_id), account_id, 0)

\* create_journal_entry on the chart: two-line entries of one cent.
CreateChartEntry ==
    \E debit_account \in RequestAccountIds, credit_account \in RequestAccountIds :
        JournalCall("create_journal_entry",
                    create_journal_entry(sess, TwoPostings(debit_account, credit_account, 1),
                                         n_ids + 1, "manual", 0),
                    debit_account, credit_account)

NextChart ==
    \/ CreateChartEntry
    \/ UpdateAccount
    \/ DeleteAccount

\* Two create_account requests on sessions of their own.
CreatingWorkers == {w \in Workers : workers[w].pc = "create"}

\* create_account up to db.add(account): the code check has passed.
CheckCode(w) ==
    /\ w \notin CreatingWorkers
    /\ db.account_seq + Cardinality(CreatingWorkers) + 1 \in ChartAccountIds
    /\ \E code \in Codes, is_active \in BOOLEAN :
         workers' = [workers EXCEPT ![w] =
                       [pc |-> IF CodeTaken(db, code, 0) THEN "code_exists" ELSE "create",
                        code |-> code, is_active |-> is_active]]
    /\ UNCHANGED <<db, sess, n_ids, now, failed_ids, last>>

\* db.commit() of create_account: the INSERT, refused by the unique index
\* when another request has committed the code meanwhile.
CommitAccount(w) ==
    /\ workers[w].pc = "create"
    /\ LET me == workers[w]
           refused == UniqueViolation(db, me.code, 0)
       IN  /\ db' = IF refused THEN db ELSE InsertAccount(db, me.code, me.is_active)
           /\ sess' = IF refused THEN sess
                      ELSE [sess EXCEPT
                              !.accounts = db'.accounts,
                              !.account_seq = db'.account_seq,
                              !.balance = (db'.account_seq :> 0) @@ @]
           /\ workers' = [workers EXCEPT ![w].pc =
                            IF refused THEN "integrity_error" ELSE "created"]
    /\ UNCHANGED <<n_ids, now, failed_ids, last>>

NextChartConcurrent ==
    \/ CreateAccount
    \/ UpdateAccount
    \/ \E w \in Workers : CheckCode(w)
    \/ \E w \in Workers : CommitAccount(w)

\* ------------------------------------- concurrent journal entries
\* Two create_journal_entry requests at a time, each on a session of its own,
\* each with a two-line entry: a debit and a credit of one amount.
\* The loop reads each account row with a plain SELECT (no lock, no version
\* column) and adds to the loaded balance; db.commit() writes, for each row
\* whose balance changed, the value the request computed.
PostingWorkers == {w \in Workers : workers[w].pc = "posting"}

\* The account rows the entries make the session load.
LoadedAccounts(t, entries) ==
    {entries[i].account_id : i \in 1..Len(entries)} \cap AccountIdsOf(t)

\* create_journal_entry up to the account look-ups: the journal_entry_id is
\* made and the account rows are loaded into the request's session.
LoadAccounts(w) ==
    /\ workers[w].pc # "posting"
    /\ n_ids < MaxCalls
    /\ n_ids' = n_ids + 1
    /\ \E debit_account \in RequestAccountIds, credit_account \in RequestAccountIds,
          amount \in Amounts :
         LET entries == TwoPostings(debit_account, credit_account, amount)
         IN  workers' = [workers EXCEPT ![w] =
                           [pc |-> "posting", entries |-> entries, je |-> n_ids + 1,
                            loaded |-> LoadedAccounts(db, entries),
                            balance |-> db.balance]]
    /\ UNCHANGED <<db, sess, now, failed_ids, last>>

\* The flush of db.commit(): the new transaction rows are inserted and each
\* loaded account whose balance differs from the value loaded is updated to
\* the value the session computed; the other rows are left as they are.
FlushEntry(t, me, ct) ==
    [t EXCEPT
       !.txns = @ \o SubSeq(ct.txns, Len(t.txns) + 1, Len(ct.txns)),
       !.balance = [a \in DOMAIN @ |->
                      IF a \in me.loaded /\ ct.balance[a] # me.balance[a]
                      THEN ct.balance[a] ELSE @[a]]]

\* The rest of create_journal_entry on the loaded rows: the postings, the
\* double-entry check and db.commit().  A request that raised ends with its
\* session.
PostAndCommit(w) ==
    /\ workers[w].pc = "posting"
    /\ LET me == workers[w]
           t  == [db EXCEPT !.balance = [a \in DOMAIN @ |->
                               IF a \in me.loaded THEN me.balance[a] ELSE @[a]]]
           r  == create_journal_entry(t, me.entries, me.je, "manual", 0)
       IN  /\ db' = IF r.ok THEN FlushEntry(db, me, r.ct) ELSE db
           /\ workers' = [workers EXCEPT ![w].pc = IF r.ok THEN "posted" ELSE "failed"]
           /\ failed_ids' = IF r.ok THEN failed_ids ELSE failed_ids \cup {me.je}
    /\ UNCHANGED <<sess, n_ids, now, last>>

NextLedgerConcurrent ==
    \/ \E w \in Workers : LoadAccounts(w)
    \/ \E w \in Workers : PostAndCommit(w)

\* ---------------------------------------- concurrent calls on one order
\* Requests on sessions of their own over the one database.  A session that
\* holds nothing pending sees the committed tables, so a commit shows in both.
\* transition_order_state reads the order with a plain SELECT (no lock, no
\* version column) and commits the status it computed from what it read.
BusyWorkers == {w \in Workers : workers[w].pc \in {"loaded", "transition", "sweep"}}

\* A request that creates an order on a session of its own; the session is
\* closed with the request, so a call that raised leaves nothing behind.
CreateOrderRequest ==
    /\ Len(db.orders) < MaxOrders
    /\ \E items \in OrderItemLists :
         LET r == create_order(db, items, now)
         IN  /\ db' = IF r.ok THEN r.ct ELSE db
             /\ sess' = db'
             /\ last' = [op |-> "create_order", ok |-> r.ok, err |-> r.err,
                         a |-> Len(items), b |-> 0, pre |-> db.stock]
    /\ UNCHANGED <<n_ids, now, failed_ids, workers>>

\* transition_order_state up to the query: the order row is loaded.
\* snapshot counts the audit rows of the order committed so far.
LoadOrder(w) ==
    /\ w \notin BusyWorkers
    /\ \E order_id \in OrderIdsOf(db), new_state \in OrderStatus :
         /\ Len(db.audit[order_id]) < MaxTransitions
         /\ workers' = [workers EXCEPT ![w] =
                       [pc |-> "transition", order_id |-> order_id,
                        new_state |-> new_state,
                        status |-> db.orders[order_id].status,
                        snapshot |-> Len(db.audit[order_id])]]
    /\ UNCHANGED <<db, sess, n_ids, now, failed_ids, last>>

\* The tables as a session sees them that loaded order_id with `status`:
\* the loaded attribute stands, the other rows are read when they are used.
WithLoadedStatus(t, order_id, status) == [t EXCEPT !.orders[order_id].status = status]

\* The rest of transition_order_state: can_transition on the loaded status,
\* the assignment, the audit row and db.commit().
CheckAndCommitTransition(w) ==
    /\ workers[w].pc = "transition"
    /\ LET me == workers[w]
           r  == transition_order_state(WithLoadedStatus(db, me.order_id, me.status),
                                        me.order_id, me.new_state, now)
       IN  /\ db' = IF r.ok THEN r.ct ELSE db
           /\ sess' = db'
           /\ workers' = [workers EXCEPT ![w].pc = IF r.ok THEN "done" ELSE "failed"]
    /\ UNCHANGED <<n_ids, now, failed_ids, last>>

\* expire_old_orders up to .all(): the selected orders are loaded.
SelectExpired(w) ==
    /\ w \notin BusyWorkers
    /\ ExpiredOrders(db, now) # {}
    /\ \A o \in ExpiredOrders(db, now) : Len(db.audit[o]) < MaxTransitions
    /\ \E ids \in Orderings(ExpiredOrders(db, now)) :
         workers' = [workers EXCEPT ![w] =
                       [pc |-> "sweep", ids |-> ids, count |-> 0,
                        loaded |-> [o \in ExpiredOrders(db, now) |-> db.orders[o].status],
                        committed |-> FALSE]]
    /\ UNCHANGED <<db, sess, n_ids, now, failed_ids, last>>

\* One iteration of the loop of expire_old_orders.  The query of
\* transition_order_state returns the object the session already holds: with
\* the attributes loaded by .all() until the session's first commit, which
\* expires them (expire_on_commit), and read again from the database after.
ExpireNext(w) ==
    /\ workers[w].pc = "sweep"
    /\ LET me     == workers[w]
           o      == Head(me.ids)
           status == IF me.committed THEN db.orders[o].status ELSE me.loaded[o]
           r      == transition_order_state(WithLoadedStatus(db, o, status), o, EXPIRED, now)
       IN  /\ db' = IF r.ok THEN r.ct ELSE db
           /\ sess' = db'
           /\ workers' = [workers EXCEPT ![w] =
                 IF ~r.ok THEN [me EXCEPT !.pc = "sweep_failed"]
                 ELSE [me EXCEPT !.ids = Tail(me.ids), !.count = @ + 1,
                                 !.committed = TRUE,
                                 !.pc = IF Tail(me.ids) = <<>> THEN "swept" ELSE "sweep"]]
    /\ UNCHANGED <<n_ids, now, failed_ids, last>>

NextOrderConcurrent ==
    \/ CreateOrderRequest
    \/ Tick
    \/ \E w \in Workers : LoadOrder(w)
    \/ \E w \in Workers : CheckAndCommitTransition(w)
    \/ \E w \in Workers : SelectExpired(w)
    \/ \E w \in Workers : ExpireNext(w)

\* ------------------------------------------------- balances and reports
\* The reports run on a chart with a second asset account (1100 Bank).
ReportAccountIds == 1..3

InitReportTables == [InitTables EXCEPT !.balance = [a \in ReportAccountIds |-> 0]]

RECURSIVE SumAmounts(_, _, _)
SumAmounts(rows, account_id, type) ==
    IF rows = <<>> THEN 0
    ELSE (IF Head(rows).account_id = account_id /\ Head(rows).transaction_type = type
          THEN Head(rows).amount ELSE 0)
         + SumAmounts(Tail(rows), account_id, type)

\* AccountingService.get_account_balance: the denormalized field.
accounting_get_account_balance(t, account_id) ==
    IF account_id \notin AccountIdsOf(t) THEN Raise(t, "account_not_found") @@ [value |-> 0]
    ELSE Done(t) @@ [value |-> t.balance[account_id]]

DebitMinusCredit(debit_sum, credit_sum) == debit_sum - credit_sum

\* AccountService.get_account_balance: debits minus credits of the account,
\* stored in account.balance and committed.
account_get_account_balance(t, account_id) ==
    IF account_id \notin AccountIdsOf(t) THEN Raise(t, "account_not_found") @@ [value |-> 0]
    ELSE LET debit_sum  == SumAmounts(t.txns, account_id, DEBIT)
             credit_sum == SumAmounts(t.txns, account_id, CREDIT)
             balance    == DebitMinusCredit(debit_sum, credit_sum)
         IN  Ok([t EXCEPT !.balance[account_id] = balance]) @@ [value |-> balance]

\* The members of schemas.account.AccountType, by value.
SchemaAccountTypes == {"asset", "liability", "equity", "revenue", "expense"}

\* AccountService.get_all_account_balances over the accounts in the order the
\* query returned them.  Each get_account_balance commits; AccountBalance(...)
\* validates account_type against the schema's enum and raises on a value
\* that is not a member of it.
RECURSIVE AllBalancesLoop(_, _)
AllBalancesLoop(r, ids) ==
    IF ids = <<>> THEN r
    ELSE LET one == account_get_account_balance(r.t, Head(ids))
             r1  == [r EXCEPT !.t = one.t, !.committed = TRUE, !.ct = one.ct]
         IN  IF account_type(Head(ids)) \notin SchemaAccountTypes
             THEN [r1 EXCEPT !.ok = FALSE, !.err = "validation_error"]
             ELSE AllBalancesLoop(
                      [r1 EXCEPT !.balances = Append(@, [account_id |-> Head(ids),
                                                         balance |-> one.value])],
                      Tail(ids))

get_all_account_balances(t, ids) ==
    AllBalancesLoop([t |-> t, ok |-> TRUE, err |-> "none", committed |-> FALSE, ct |-> t,
                     balances |-> <<>>],
                    ids)

RECURSIVE SumPositive(_)
SumPositive(balances) ==
    IF balances = <<>> THEN 0
    ELSE (IF Head(balances).balance > 0 THEN Head(balances).balance ELSE 0)
         + SumPositive(Tail(balances))

RECURSIVE SumNegative(_)
SumNegative(balances) ==
    IF balances = <<>> THEN 0
    ELSE (IF Head(balances).balance < 0 THEN Head(balances).balance ELSE 0)
         + SumNegative(Tail(balances))

\* abs(total_debit - total_credit) < 0.01 on floats: true for equal totals,
\* false for totals two cents or more apart; for totals one cent apart the
\* float difference falls on either side of 0.01 (0.03 - 0.02 < 0.01, but
\* not 0.05 - 0.04 < 0.01).
BalancedOutcomes(total_debit, total_credit) ==
    IF total_debit = total_credit THEN {TRUE}
    ELSE IF Abs(total_debit - total_credit) = 1 THEN BOOLEAN
    ELSE {FALSE}

NoReport == [total_debit |-> 0, total_credit |-> 0]

\* AccountService.get_trial_balance
account_get_trial_balance(t, ids) ==
    LET r == get_all_account_balances(t, ids)
    IN  r @@ [report |-> IF r.ok
                         THEN [total_debit  |-> SumPositive(r.balances),
                               total_credit |-> Abs(SumNegative(r.balances))]
                         ELSE NoReport]

\* AccountingService.get_trial_balance: only accounts whose balance is above
\* zero enter the report, on the side of their type.
RECURSIVE TrialTotals(_, _, _)
TrialTotals(t, ids, totals) ==
    IF ids = <<>> THEN totals
    ELSE LET a == Head(ids)
             balance == t.balance[a]
             next == IF balance > 0
                     THEN IF account_type(a) \in {"asset", "expense"}
                          THEN [totals EXCEPT !.total_debit = @ + balance]
                          ELSE [totals EXCEPT !.total_credit = @ + balance]
                     ELSE totals
         IN  TrialTotals(t, Tail(ids), next)

accounting_get_trial_balance(t, ids) ==
    Done(t) @@ [report |-> TrialTotals(t, ids, NoReport)]

ReportCall(op, r, a, b) ==
    /\ Call(op, r, a, b)
    /\ UNCHANGED <<n_ids, now, failed_ids>>

AccountingGetAccountBalance ==
    \E account_id \in ReportAccountIds \cup {4} :
        LET r == accounting_get_account_balance(sess, account_id)
        IN  ReportCall("accounting.get_account_balance", r, account_id, r.value)

AccountGetAccountBalance ==
    \E account_id \in ReportAccountIds \cup {4} :
        LET r == account_get_account_balance(sess, account_id)
        IN  ReportCall("account.get_account_balance", r, account_id, r.value)

AccountGetAllAccountBalances ==
    \E ids \in Orderings(AccountIdsOf(sess)) :
        LET r == get_all_account_balances(sess, ids)
        IN  ReportCall("account.get_all_account_balances", r, 0, r.balances)

AccountGetTrialBalance ==
    \E ids \in Orderings(AccountIdsOf(sess)) :
        LET r == account_get_trial_balance(sess, ids) IN
        \E balanced \in BalancedOutcomes(r.report.total_debit, r.report.total_credit) :
            ReportCall("account.get_trial_balance", r, 0,
                       r.report @@ [balanced |-> balanced])

AccountingGetTrialBalance ==
    \E ids \in Orderings(AccountIdsOf(sess)) :
        LET r == accounting_get_trial_balance(sess, ids) IN
        \E balanced \in BalancedOutcomes(r.report.total_debit, r.report.total_credit) :
            ReportCall("accounting.get_trial_balance", r, 0,
                       r.report @@ [balanced |-> balanced])

NextReports ==
    \/ RecordSale
    \/ RecordExpense
    \/ TransferFunds
    \/ AccountingGetAccountBalance
    \/ AccountGetAccountBalance
    \/ AccountGetAllAccountBalances
    \/ AccountGetTrialBalance
    \/ AccountingGetTrialBalance

\* ------------------------------------------------------------------ specs
NoCall == [op |-> "none", ok |-> TRUE, err |-> "none", a |-> 0, b |-> 0,
           pre |-> InitTables.stock]

Init ==
    /\ db = InitTables
    /\ sess = InitTables
    /\ n_ids = 0
    /\ now = 0
    /\ failed_ids = {}
    /\ last = NoCall
    /\ workers = [w \in Workers |-> IdleWorker]

NextLedger ==
    \/ CreateJournalEntry
    \/ RecordSale
    \/ RecordExpense
    \/ TransferFunds

SpecLedger == Init /\ [][NextLedger]_vars

NextOrders ==
    \/ CreateOrder
    \/ TransitionOrderState
    \/ ExpireOldOrders
    \/ Tick

SpecOrders == Init /\ [][NextOrders]_vars

NextInventory ==
    \/ RecordMovement
    \/ RecordPurchase
    \/ RecordStockSale
    \/ AdjustInventory

SpecInventory == Init /\ [][NextInventory]_vars

NextCoordinator ==
    \/ CoordinatorCreateOrder
    \/ UpdateOrderStatus

SpecCoordinator == Init /\ [][NextCoordinator]_vars

SpecConcurrent == Init /\ [][NextConcurrent]_vars

SpecPayment == Init /\ [][NextPayment]_vars

InitReports ==
    /\ db = InitReportTables
    /\ sess = InitReportTables
    /\ n_ids = 0
    /\ now = 0
    /\ failed_ids = {}
    /\ last = NoCall
    /\ workers = [w \in Workers |-> IdleWorker]

SpecReports == InitReports /\ [][NextReports]_vars

SpecOrderConcurrent == Init /\ [][NextOrderConcurrent]_vars

InitChart ==
    /\ db = InitChartTables
    /\ sess = InitChartTables
    /\ n_ids = 0
    /\ now = 0
    /\ failed_ids = {}
    /\ last = NoCall
    /\ workers = [w \in Workers |-> IdleWorker]

SpecChart == InitChart /\ [][NextChart]_vars

InitBookings ==
    /\ db = InitBookingTables
    /\ sess = InitBookingTables
    /\ n_ids = 0
    /\ now = 0
    /\ failed_ids = {}
    /\ last = NoCall
    /\ workers = [w \in Workers |-> IdleWorker]

SpecBookings == InitBookings /\ [][NextBookings]_vars

SpecChartConcurrent == InitChart /\ [][NextChartConcurrent]_vars

SpecLedgerConcurrent == Init /\ [][NextLedgerConcurrent]_vars

\* ----------------------------------------------------------- ledger sums
RECURSIVE SumSide(_, _)
SumSide(rows, type) ==
    IF rows = <<>> THEN 0
    ELSE (IF Head(rows).transaction_type = type THEN Head(rows).amount ELSE 0)
         + SumSide(Tail(rows), type)

\* The signed sum of the postings of account a, by the account's normal side.
RECURSIVE SignedSum(_, _)
SignedSum(rows, a) ==
    IF rows = <<>> THEN 0
    ELSE LET r == Head(rows)
             normal == IF account_type(a) \in {"asset", "expense"} THEN DEBIT ELSE CREDIT
         IN  (IF r.account_id # a THEN 0
              ELSE IF r.transaction_type = normal THEN r.amount ELSE -r.amount)
             + SignedSum(Tail(rows), a)

\* C1: every persisted ledger is exactly balanced: the sum of the persisted
\* debit postings equals the sum of the persisted credit postings.
C1_LedgerExactlyBalanced ==
    SumSide(db.txns, DEBIT) = SumSide(db.txns, CREDIT)

\* C2: each account's denormalized balance equals the signed sum of the
\* persisted postings against it under the normal-balance rule.
C2_BalanceIsSignedSum ==
    \A a \in AccountIds : db.balance[a] = SignedSum(db.txns, a)

C2_Witness ==
    /\ last.op = "create_journal_entry" /\ last.ok
    /\ \E i \in 1..Len(db.txns) : \E j \in 1..Len(db.txns) :
         /\ db.txns[i].transaction_type = CREDIT /\ account_type(db.txns[i].account_id) = "asset"
         /\ db.txns[j].transaction_type = CREDIT /\ account_type(db.txns[j].account_id) = "income"
    /\ \E a \in AccountIds : db.balance[a] < 0

\* C3: a create_journal_entry call that raised has no effect: none of its
\* postings is ever persisted.
C3_FailedEntryNeverPersists ==
    \A i \in 1..Len(db.txns) : db.txns[i].journal_entry_id \notin failed_ids

\* C4: transition_order_state on an order whose status is `from` with target
\* `to` succeeds and sets the status when (from, to) is in
\* ORDER_STATE_TRANSITIONS, and otherwise fails with an invalid-transition
\* error, leaves the order's status unchanged and appends no audit row.
C4_Step ==
    (last'.op = "transition_order_state" /\ last'.a \in OrderIdsOf(sess)) =>
        LET o    == last'.a
            from == sess.orders[o].status
            to   == last'.b
        IN  IF to \in ORDER_STATE_TRANSITIONS(from)
            THEN /\ last'.ok
                 /\ sess'.orders[o].status = to
                 /\ db'.orders[o].status = to
            ELSE /\ ~last'.ok
                 /\ last'.err = "invalid_transition"
                 /\ sess'.orders = sess.orders /\ sess'.audit = sess.audit
                 /\ db'.orders = db.orders /\ db'.audit = db.audit

C4_TransitionClosure == [][C4_Step]_vars

\* The spec's example, dispatched -> pending_payment, was tried and refused.
C4_Witness ==
    /\ last.op = "transition_order_state" /\ ~last.ok /\ last.err = "invalid_transition"
    /\ last.a \in OrderIdsOf(db)
    /\ db.orders[last.a].status = DISPATCHED
    /\ last.b = PENDING_PAYMENT

\* C5: every change of an order's status is an edge of the transition table;
\* completed, cancelled and expired are never left, and a dispatched order is
\* afterwards only dispatched or completed.
EdgeOrSame(old, new) ==
    /\ new # old => new \in ORDER_STATE_TRANSITIONS(old)
    /\ old \in {COMPLETED, CANCELLED, EXPIRED} => new = old
    /\ old = DISPATCHED => new \in {DISPATCHED, COMPLETED}

C5_Step ==
    /\ \A o \in OrderIdsOf(sess) :
         /\ o \in OrderIdsOf(sess')
         /\ EdgeOrSame(sess.orders[o].status, sess'.orders[o].status)
    /\ \A o \in OrderIdsOf(db) :
         /\ o \in OrderIdsOf(db')
         /\ EdgeOrSame(db.orders[o].status, db'.orders[o].status)

C5_StatusChangesAreEdges == [][C5_Step]_vars

C5_Witness ==
    \E o \in OrderIdsOf(db) :
        /\ db.orders[o].status = COMPLETED
        /\ Len(db.audit[o]) = 5
        /\ last.op = "transition_order_state" /\ ~last.ok

SalePosted(t, o) ==
    \E i \in 1..Len(t.txns) : \E j \in 1..Len(t.txns) :
        /\ t.txns[i].journal_entry_id = t.txns[j].journal_entry_id
        /\ t.txns[i].transaction_type = DEBIT /\ t.txns[j].transaction_type = CREDIT
        /\ t.txns[i].amount = t.orders[o].total_amount
        /\ t.txns[j].amount = t.orders[o].total_amount
        /\ t.txns[i].source_type = "order" /\ t.txns[i].source_id = o
        /\ t.txns[j].source_type = "order" /\ t.txns[j].source_id = o

\* C8: an order's payment has been confirmed if and only if a balanced sale
\* journal entry for its total_amount, tagged with the order, is persisted.
C8_ConfirmedIffSalePosted ==
    \A o \in OrderIdsOf(db) :
        (db.orders[o].payment_confirmed_at # {}) <=> SalePosted(db, o)

RECURSIVE RequestedUnits(_, _)
RequestedUnits(items, p) ==
    IF items = <<>> THEN 0
    ELSE (IF Head(items).product_id = p /\ product_type(p) = "physical"
          THEN Head(items).quantity ELSE 0)
         + RequestedUnits(Tail(items), p)

\* C10: creating an order for n units of a physical product lowers its
\* stock_quantity by n, and cancelling that order in the next call restores
\* stock_quantity to its value before the order was created.
C10_Step ==
    /\ (last'.op = "create_order" /\ last'.ok) =>
           \A p \in ProductIds :
               /\ sess'.stock[p] = sess.stock[p] - RequestedUnits(last'.b, p)
               /\ db'.stock[p] = sess'.stock[p]
    /\ (/\ last.op = "create_order" /\ last.ok
        /\ last'.op = "update_order_status" /\ last'.a = last.a /\ last'.b = CANCELLED) =>
           /\ last'.ok
           /\ sess'.stock = last.pre
           /\ db'.stock = last.pre

C11_Step ==
    (last'.op = "expire_old_orders") =>
        LET stale == ExpiredOrders(sess, now) IN
        /\ last'.ok
        /\ last'.a = Cardinality(stale)
        /\ \A o \in OrderIdsOf(sess) :
             IF o \in stale
             THEN /\ sess'.orders[o].status = EXPIRED
                  /\ db'.orders[o].status = EXPIRED
                  /\ Len(sess'.audit[o]) = Len(sess.audit[o]) + 1
             ELSE /\ sess'.orders[o] = sess.orders[o]
                  /\ sess'.audit[o] = sess.audit[o]

C11_SweepExpiresEveryStaleOrder == [][C11_Step]_vars

\* C12: expiry is idempotent: after an expire_old_orders call, a second call
\* made at once returns 0, changes no order and appends no audit row.
C12_ExpiryIsIdempotent ==
    (last.op = "expire_old_orders") =>
        \A ids \in Orderings(ExpiredOrders(sess, now)) :
            LET second == expire_old_orders(sess, ids, now) IN
            /\ second.ok
            /\ second.count = 0
            /\ second.t.orders = sess.orders /\ second.t.audit = sess.audit

\* The stock of product p replayed from its movement rows, oldest first.
RECURSIVE ReplayMovements(_, _, _)
ReplayMovements(rows, p, stock) ==
    IF rows = <<>> THEN stock
    ELSE LET m == Head(rows)
             next == IF m.product_id # p THEN stock
                     ELSE IF m.movement_type \in {SALE, DAMAGE} THEN stock - m.quantity
                     ELSE stock + m.quantity
         IN  ReplayMovements(Tail(rows), p, next)

C20_EmptyEntryRejected ==
    (last.op = "create_journal_entry" /\ last.a = 0) => ~last.ok

\* C17: the two balance read paths agree: for every account the denormalized
\* balance returned by AccountingService.get_account_balance equals the value
\* AccountService.get_account_balance recomputes from the postings.
C17_BalanceReadPathsAgree ==
    \A a \in AccountIdsOf(sess) :
        accounting_get_account_balance(sess, a).value
            = account_get_account_balance(sess, a).value

PostingOps == {"create_journal_entry", "record_sale", "record_expense", "transfer_funds"}

\* C18: only the ledger's posting operations write Account.balance: every
\* other operation leaves the balance of every account unchanged.
C18_Step ==
    (last'.op \notin PostingOps) =>
        /\ sess'.balance = sess.balance
        /\ db'.balance = db.balance

C18_OnlyPostingWritesBalance == [][C18_Step]_vars

\* C19: after successful balanced postings every trial balance that is
\* reported, by AccountingService or by AccountService, has total_debit equal
\* to total_credit and balanced = true.
C19_TrialBalanceBalanced ==
    (/\ last.op \in {"accounting.get_trial_balance", "account.get_trial_balance"}
     /\ last.ok) =>
        /\ last.b.total_debit = last.b.total_credit
        /\ last.b.balanced

\* The statuses expire_old_orders selects.
SweptStatuses == {PENDING_PAYMENT, PAYMENT_SUBMITTED}

\* C13: expire_old_orders is safe under concurrency: when a sweep comes to a
\* selected order that another call has meanwhile expired or moved on, it
\* skips the order without error (no second transition to expired, no write
\* at all) and goes on with the remaining orders.
C13_Step ==
    \A w \in Workers :
        (/\ workers[w].pc = "sweep"
         /\ workers'[w] # workers[w]
         /\ db.orders[Head(workers[w].ids)].status \notin SweptStatuses)
        => /\ db' = db
           /\ workers'[w].pc # "sweep_failed"
           /\ workers'[w].ids = Tail(workers[w].ids)

C13_ConcurrentSweepIsSafe == [][C13_Step]_vars

\* C14: two concurrent transition_order_state calls on one order that read
\* the same status never both succeed.
C14_ConflictingTransitionsSerialized ==
    \A v \in Workers : \A w \in Workers :
        (/\ v # w
         /\ workers[v].pc = "done" /\ workers[w].pc = "done"
         /\ workers[v].order_id = workers[w].order_id)
        => workers[v].snapshot # workers[w].snapshot

\* C15: the audit rows of an order are the history of its status: they form
\* a chain (each row's from_state is the previous row's to_state) whose last
\* to_state is the order's current status.
C15_AuditIsStatusHistory ==
    \A o \in OrderIdsOf(db) :
        LET rows == db.audit[o] IN
        /\ \A i \in 2..Len(rows) : rows[i].from_state = rows[i - 1].to_state
        /\ rows # <<>> => rows[Len(rows)].to_state = db.orders[o].status

\* The rows a journal entry added to the transactions table.
NewRows(before, after, je) ==
    {i \in (Len(before) + 1)..Len(after) : after[i].journal_entry_id = je}

\* C21: create_journal_entry rejects an entry that names an unknown or an
\* inactive account: the postings of an entry that succeeds all refer to
\* accounts that existed and were active when the entry was posted.
C21_Step ==
    (last'.op = "create_journal_entry" /\ last'.ok /\ n_ids' = n_ids + 1)
    => \A i \in NewRows(db.txns, db'.txns, n_ids') :
           /\ db'.txns[i].account_id \in AccountIdsOf(sess)
           /\ sess.accounts[db'.txns[i].account_id].is_active

C21_PostingsNameActiveAccounts == [][C21_Step]_vars

CodesUnique(t) ==
    \A a \in AccountIdsOf(t) : \A b \in AccountIdsOf(t) :
        a # b => t.accounts[a].code # t.accounts[b].code

CodeOfAnother(t, code, account_id) ==
    \E a \in AccountIdsOf(t) : a # account_id /\ t.accounts[a].code = code

\* C24: account codes stay unique: create_account with a code that exists
\* and update_account to the code of another account fail, a failed call
\* changes nothing, and of two concurrent create_account calls with one code
\* at most one inserts its row.
C24_Step ==
    /\ CodesUnique(db') /\ CodesUnique(sess')
    /\ (workers' = workers /\ last'.op = "create_account"
          /\ CodeOfAnother(sess, last'.a, 0)) => ~last'.ok
    /\ (workers' = workers /\ last'.op = "update_account"
          /\ "code" \in DOMAIN last'.b
          /\ CodeOfAnother(sess, last'.b.code, last'.a)) => ~last'.ok
    /\ (workers' = workers /\ last'.op \in {"create_account", "update_account"}
          /\ ~last'.ok) => (sess' = sess /\ db' = db)
    /\ \A w \in Workers :
          (workers'[w] # workers[w]
             /\ workers'[w].pc \in {"code_exists", "integrity_error"}) => db' = db

C24_AccountCodesUnique == [][C24_Step]_vars

C24_Witness ==
    /\ \E w \in Workers : workers[w].pc = "integrity_error"
    /\ last.op = "update_account" /\ ~last.ok /\ last.err = "code_exists"

PostingsOf(t, account_id) == {i \in 1..Len(t.txns) : t.txns[i].account_id = account_id}

\* C25: an account with postings is never deleted: delete_account on it
\* fails and changes nothing, and every persisted posting refers to an
\* account row that exists.
C25_Step ==
    /\ \A i \in 1..Len(db'.txns) : db'.txns[i].account_id \in DOMAIN db'.accounts
    /\ (last'.op = "delete_account" /\ last'.a \in AccountIdsOf(sess)
          /\ PostingsOf(sess, last'.a) # {})
       => (~last'.ok /\ sess' = sess /\ db' = db)

C25_PostedAccountsNeverDeleted == [][C25_Step]_vars

C25_Witness ==
    /\ last.op = "delete_account" /\ ~last.ok /\ last.err = "has_transactions"
    /\ PostingsOf(db, last.a) # {}
    /\ \E a \in AccountIds : a \notin AccountIdsOf(db)

RowsOfOrder(rows, o) == SelectSeq(rows, LAMBDA row : row.order_id = o)

RECURSIVE PriceTimesQuantity(_)
PriceTimesQuantity(rows) ==
    IF rows = <<>> THEN 0
    ELSE selling_price(Head(rows).product_id) * Head(rows).quantity
         + PriceTimesQuantity(Tail(rows))

\* create_order of services/order.py as a step.
C23_Step ==
    (last'.op = "create_order" /\ last'.ok /\ Len(db'.orders) = Len(db.orders) + 1)
    => LET o     == Len(db'.orders)
           order == db'.orders[o]
           rows  == RowsOfOrder(db'.order_items, o)
       IN  /\ \A i \in 1..Len(rows) :
                 /\ rows[i].unit_price = selling_price(rows[i].product_id)
                 /\ rows[i].subtotal = rows[i].unit_price * rows[i].quantity
           /\ Len(rows) = last'.a
           /\ order.subtotal = PriceTimesQuantity(rows)
           /\ order.total_amount = order.subtotal
           /\ order.status = PENDING_PAYMENT

\* create_order of services/order_service.py with zero tax and discount,
\* applied to the tables as they are.
C23_Coordinator ==
    \A items \in CoordinatorItemLists :
        LET r == coordinator_create_order(sess, items, 0, 0)
            o == Len(sess.orders) + 1
        IN  r.ok =>
              LET rows == RowsOfOrder(r.t.order_items, o) IN
              /\ \A i \in 1..Len(rows) :
                    rows[i].total_price = selling_price(rows[i].product_id) * rows[i].quantity
              /\ Len(rows) = Len(items)
              /\ r.t.orders[o].subtotal = PriceTimesQuantity(items)
              /\ r.t.orders[o].total = r.t.orders[o].subtotal
              /\ r.t.orders[o].status = PENDING_PAYMENT

C26_Step ==
    /\ (last'.op = "create_booking" /\ last'.ok)
         => /\ Len(db'.bookings) = Len(db.bookings) + 1
            /\ db'.bookings[Len(db'.bookings)].status = BOOKING_PENDING
    /\ (last'.op = "confirm_booking" /\ last'.ok)
         => /\ db'.bookings[last'.a].status = BOOKING_CONFIRMED
            /\ db'.bookings[last'.a].calendar_event_id # {}
    /\ (last'.op = "cancel_booking")
         => /\ last'.ok
            /\ db'.bookings[last'.a].status = BOOKING_CANCELLED

C27_Step ==
    /\ (last'.op = "confirm_booking" /\ last'.b = CalendarFailure)
         => (last'.ok /\ db'.bookings[last'.a].status = BOOKING_CONFIRMED)
    /\ (last'.op = "cancel_booking" /\ last'.b = CalendarFailure)
         => (last'.ok /\ db'.bookings[last'.a].status = BOOKING_CANCELLED)

C27_CalendarIsBestEffort == [][C27_Step]_vars

\* C28: the timestamps follow the status: an order that is confirmed,
\* processing, dispatched or completed has payment_confirmed_at, one that is
\* dispatched or completed has dispatched_at, a completed one has
\* completed_at, and an expired order has none of the three.
C28_TimestampsFollowStatus ==
    \A o \in OrderIdsOf(db) :
        LET order == db.orders[o] IN
        /\ order.status \in {CONFIRMED, PROCESSING, DISPATCHED, COMPLETED}
             => order.payment_confirmed_at # {}
        /\ order.status \in {DISPATCHED, COMPLETED} => order.dispatched_at # {}
        /\ order.status = COMPLETED => order.completed_at # {}
        /\ order.status = EXPIRED
             => /\ order.payment_confirmed_at = {}
                /\ order.dispatched_at = {}
                /\ order.completed_at = {}

\* The units of physical product p held by the orders of tables t that are
\* neither cancelled nor refunded.
RECURSIVE HeldUnits(_, _, _)
HeldUnits(t, rows, p) ==
    IF rows = <<>> THEN 0
    ELSE (IF /\ Head(rows).product_id = p
             /\ Head(rows).product_type = "physical"
             /\ t.orders[Head(rows).order_id].status \notin {CANCELLED, REFUNDED}
          THEN Head(rows).quantity ELSE 0)
         + HeldUnits(t, Tail(rows), p)

C30_NoBalanceUpdateLost ==
    PostingWorkers = {} =>
        /\ \A a \in AccountIds : db.balance[a] = SignedSum(db.txns, a)
        /\ \A i \in 1..Len(db.txns) : db.txns[i].journal_entry_id \notin failed_ids

====
